---- MODULE Spec2Model ----
(***************************************************************************)
(* Model of the AI Diet Tracker (src/app.py): the remote spreadsheet with  *)
(* its Logs and Settings worksheets, the process-wide st.cache_data /      *)
(* st.cache_resource caches, and the per-session st.session_state driven   *)
(* by Streamlit script runs.                                               *)
(*                                                                         *)
(* A Logs row keeps the columns the aggregation reads (User, Date and the  *)
(* five numeric columns); Timestamp, Meal, items_text and json_data are    *)
(* written by the program but never read back by it.  A calendar date is a *)
(* day number.  A cell of a numeric column is Num(n) when it holds the      *)
(* number n and NotNum when it holds anything else (text, an empty cell).  *)
(***************************************************************************)
EXTENDS Integers, Sequences, FiniteSets, TLC

\* -------------------------------------------------------------------------
\* Program constants
\* -------------------------------------------------------------------------

USER_LIST == <<"Suyash", "Divyanshi">>

Users == {USER_LIST[i] : i \in 1..Len(USER_LIST)}

\* @st.cache_data(ttl=60)
TTL == 60

\* the goal get_calorie_goal falls back to
DEFAULT_GOAL == 2000

\* start_date = end_date - timedelta(days=6)
WEEK_SPAN == 6

NumericCols == <<"calories_kcal", "protein_g", "carbs_g", "fat_g", "fiber_g">>

\* -------------------------------------------------------------------------
\* Bounds of the model
\* -------------------------------------------------------------------------

\* rows of the Logs snapshot the aggregation is exercised on
MaxRows == 2

\* rows a session's logs_df may grow to by meal logging
MaxLogs == 1

\* browser sessions running the script
Sessions == {1, 2}

\* values entered in the "Daily Goal (kcal)" number input
GoalInputs == {1500}

\* dates picked in the date selector when a meal is logged
MealDates == {0}

\* dates of the rows of the snapshots the aggregation is exercised on, and
\* dates selected when they are shown: day 0 lies outside the week ending
\* on day 7, day 7 outside the week ending on day 6
AggDates == {0, 1, 7}

ViewDates == {1, 6, 7}

\* -------------------------------------------------------------------------
\* Helpers standing for pandas primitives
\* -------------------------------------------------------------------------

\* a cell holding the number n
Num(n) == [num |-> TRUE, v |-> n]

\* a cell holding no number
NotNum == [num |-> FALSE, v |-> 0]

IsNumber(cell) == cell.num

\* pd.to_numeric(col, errors='coerce').fillna(0), cell by cell
to_numeric_fillna(cell) == IF IsNumber(cell) THEN cell.v ELSE 0

RECURSIVE SumSeq(_)
\* Series.sum() over a numeric column
SumSeq(q) == IF q = <<>> THEN 0 ELSE Head(q) + SumSeq(Tail(q))

\* df[col] as a sequence of cells
Column(df, col) == [i \in 1..Len(df) |-> df[i][col]]

\* -------------------------------------------------------------------------
\* Aggregation (pure functions over a snapshot)
\* -------------------------------------------------------------------------

\* get_calorie_goal(settings_df, user)
get_calorie_goal(settings_df, u) ==
    IF settings_df = <<>> THEN DEFAULT_GOAL
    ELSE LET user_settings ==
                 SelectSeq(settings_df,
                           LAMBDA r : r.User = u /\ r.Setting = "Calorie Goal")
         IN  IF user_settings # <<>> THEN user_settings[1].Value
             ELSE DEFAULT_GOAL

\* get_daily_logs that forgets the filter on the date
get_daily_logs_any_date(df, u, d) ==
    LET user_df == SelectSeq(df, LAMBDA r : r.User = u)
    IN  [i \in 1..Len(user_df) |->
            [c \in DOMAIN user_df[i] |->
                IF \E k \in 1..Len(NumericCols) : NumericCols[k] = c
                THEN to_numeric_fillna(user_df[i][c])
                ELSE user_df[i][c]]]

\* get_daily_logs(logs_df, user, selected_date): filter by user, then by
\* date, then coerce each of the five numeric columns
get_daily_logs(df, u, d) ==
    IF df = <<>> THEN <<>>
    ELSE LET user_df  == SelectSeq(df, LAMBDA r : r.User = u)
             daily_df == SelectSeq(user_df, LAMBDA r : r.Date = d)
         IN  [i \in 1..Len(daily_df) |->
                 [c \in DOMAIN daily_df[i] |->
                     IF \E k \in 1..Len(NumericCols) : NumericCols[k] = c
                     THEN to_numeric_fillna(daily_df[i][c])
                     ELSE daily_df[i][c]]]

\* daily_df[col].sum() if col in daily_df.columns else 0
ColumnTotal(daily_df, col) ==
    IF daily_df = <<>> THEN 0 ELSE SumSeq(Column(daily_df, col))

\* total_calories .. total_fiber of the Daily Summary
DailyTotals(df, u, d) ==
    LET daily_df == get_daily_logs(df, u, d)
    IN  [c \in {NumericCols[k] : k \in 1..Len(NumericCols)} |->
            ColumnTotal(daily_df, c)]

\* weekly_df.groupby(date)['calories_kcal'].sum() on the raw column: the
\* column is not coerced here, and adding a number to a non-number raises
GroupSum(weekly_df, day) ==
    LET group == SelectSeq(weekly_df, LAMBDA r : r.Date = day)
    IN  SumSeq([i \in 1..Len(group) |-> group[i].calories_kcal.v])

RECURSIVE SeriesSum(_, _)
\* sum of a Series indexed by the days in S
SeriesSum(series, S) ==
    IF S = {} THEN 0
    ELSE LET day == CHOOSE x \in S : TRUE
         IN  series[day] + SeriesSum(series, S \ {day})

\* display_weekly_trend(logs_df, user, end_date): "info" when it returns
\* early with a message; "chart" with the per-day series and its mean,
\* daily_calories.mean(), kept exact as sum / count; "error" when summing a
\* non-numeric calories cell raises
display_weekly_trend(df, u, end_date) ==
    LET user_df    == SelectSeq(df, LAMBDA r : r.User = u)
        start_date == end_date - WEEK_SPAN
        weekly_df  == SelectSeq(user_df,
                          LAMBDA r : r.Date >= start_date /\ r.Date <= end_date)
        days       == {weekly_df[i].Date : i \in 1..Len(weekly_df)}
        nochart(k) == [kind |-> k, series |-> <<>>, mean_num |-> 0, mean_den |-> 0]
    IN  IF df = <<>> THEN nochart("info")
        ELSE IF user_df = <<>> THEN nochart("info")
        ELSE IF weekly_df = <<>> THEN nochart("info")
        ELSE IF \E i \in 1..Len(weekly_df) : ~IsNumber(weekly_df[i].calories_kcal)
        THEN nochart("error")
        ELSE LET daily_calories == [day \in days |-> GroupSum(weekly_df, day)]
             IN  [kind     |-> "chart",
                  series   |-> daily_calories,
                  mean_num |-> SeriesSum(daily_calories, days),
                  mean_den |-> Cardinality(days)]

\* -------------------------------------------------------------------------
\* State
\* -------------------------------------------------------------------------

VARIABLES
    settings_ws,    \* rows of the remote Settings worksheet
    logs_ws,        \* rows of the remote Logs worksheet
    clients,        \* st.cache_resource entry of initialize_gspread_client
    data_cache,     \* st.cache_data entry of fetch_all_data
    session_state,  \* st.session_state of each session
    cookie,         \* the last_user cookie of each session's browser
    pc,             \* where each session's script run stands
    pending,        \* the cell found and goal being saved by a session
    outcome,        \* how each session's last script run ended
    last_fetch,     \* the last fetch_all_data call: who made it, remotely or not
    view,           \* the Daily Summary and Weekly Trend a session shows
    own_goal        \* history: per session and user, the goal the session
                    \* saved last with no later save begun (0: none)

vars == <<settings_ws, logs_ws, clients, data_cache, session_state, cookie,
          pc, pending, outcome, last_fetch, view, own_goal>>

\* st.session_state before the script ever ran
NoSessionState ==
    [user |-> "unset", loaded |-> FALSE, logs_df |-> <<>>, settings_df |-> <<>>,
     has_goal |-> FALSE, calorie_goal |-> 0]

\* st.cache_data with no entry (also after st.cache_data.clear())
EmptyCache == [valid |-> FALSE, age |-> 0, logs |-> <<>>, settings |-> <<>>]

NoView == [shown |-> FALSE, user |-> "unset", date |-> 0, totals |-> <<>>,
           trend |-> <<>>]

NoOutcome == [event |-> "none", cycle |-> "none", msg |-> "none"]

NoPending == [row |-> 0, goal |-> 0]

\* -------------------------------------------------------------------------
\* Remote store and caches
\* -------------------------------------------------------------------------

\* initialize_gspread_client(): computed once per process, the result (the
\* worksheets, or None after an exception) is cached for good
initialize_gspread_client(cl, connect_ok) ==
    IF cl = "unset" THEN (IF connect_ok THEN "ok" ELSE "none") ELSE cl

\* a cache whose entries never expire
CacheHit_no_ttl(cache, at_ttl_hit) == cache.valid

\* the entry of st.cache_data(ttl=60) is served while younger than the ttl;
\* at an age of exactly ttl the caching library's version decides
CacheHit(cache, at_ttl_hit) ==
    /\ cache.valid
    /\ \/ cache.age < TTL
       \/ cache.age = TTL /\ at_ttl_hit

\* fetch_all_data that falls back to the expired entry when the read fails
fetch_all_data_stale(cache, fetch_ok, at_ttl_hit) ==
    IF CacheHit(cache, at_ttl_hit)
    THEN [remote |-> FALSE, error |-> FALSE, cache |-> cache,
          logs |-> cache.logs, settings |-> cache.settings]
    ELSE LET logs     == IF fetch_ok THEN logs_ws ELSE cache.logs
             settings == IF fetch_ok THEN settings_ws ELSE cache.settings
         IN  [remote |-> TRUE, error |-> ~fetch_ok,
              cache |-> [valid |-> TRUE, age |-> 0, logs |-> logs,
                         settings |-> settings],
              logs |-> logs, settings |-> settings]

\* fetch_all_data(_clients): the cached return value, or a remote read of
\* both worksheets; an exception returns two empty DataFrames, and that
\* return value is cached like any other
fetch_all_data(cache, fetch_ok, at_ttl_hit) ==
    IF CacheHit(cache, at_ttl_hit)
    THEN [remote |-> FALSE, error |-> FALSE, cache |-> cache,
          logs |-> cache.logs, settings |-> cache.settings]
    ELSE LET logs     == IF fetch_ok THEN logs_ws ELSE <<>>
             settings == IF fetch_ok THEN settings_ws ELSE <<>>
         IN  [remote |-> TRUE, error |-> ~fetch_ok,
              cache |-> [valid |-> TRUE, age |-> 0, logs |-> logs,
                         settings |-> settings],
              logs |-> logs, settings |-> settings]

\* settings_ws.find(user, in_column=1): the first row whose first column
\* holds the user, 0 for None
find(ws, u) ==
    IF \E i \in 1..Len(ws) : ws[i].User = u
    THEN CHOOSE i \in 1..Len(ws) :
             /\ ws[i].User = u
             /\ \A j \in 1..(i - 1) : ws[j].User # u
    ELSE 0

\* the write of set_calorie_goal: update_cell(cell.row, 3, new_goal) when
\* find returned a cell, append_row([user, 'Calorie Goal', new_goal]) else
WriteGoal(ws, row, u, new_goal) ==
    IF row # 0
    THEN [ws EXCEPT ![row].Value = new_goal]
    ELSE Append(ws, [User |-> u, Setting |-> "Calorie Goal", Value |-> new_goal])

\* -------------------------------------------------------------------------
\* The top of a script run (lines 156-167)
\* -------------------------------------------------------------------------

\* Runs the session initialisation on session state ss with the caches cl
\* and cache; halted when st.stop() ends the run
ScriptTop(ss, ck, cl, cache, connect_ok, fetch_ok, at_ttl_hit) ==
    LET cl1 == initialize_gspread_client(cl, connect_ok)
        ss1 == IF ss.user = "unset"
               THEN [ss EXCEPT !.user = IF ck \in Users THEN ck ELSE USER_LIST[1]]
               ELSE ss
        f   == fetch_all_data(cache, fetch_ok, at_ttl_hit)
        ss2 == IF ~ss1.loaded
               THEN [ss1 EXCEPT !.loaded = TRUE, !.logs_df = f.logs,
                                !.settings_df = f.settings]
               ELSE ss1
        ss3 == IF ~ss2.has_goal
               THEN [ss2 EXCEPT !.has_goal = TRUE,
                        !.calorie_goal = get_calorie_goal(ss2.settings_df, ss2.user)]
               ELSE ss2
    IN  IF cl1 = "none"
        THEN [halted |-> TRUE, clients |-> cl1, ss |-> ss, cache |-> cache,
              fetched |-> FALSE, remote |-> FALSE,
              msg |-> IF cl = "unset" THEN "connect_error" ELSE "none"]
        ELSE [halted |-> FALSE, clients |-> cl1, ss |-> ss3,
              cache |-> IF ss1.loaded THEN cache ELSE f.cache,
              fetched |-> ~ss1.loaded,
              remote |-> ~ss1.loaded /\ f.remote,
              msg |-> IF ~ss1.loaded /\ f.error THEN "fetch_error" ELSE "none"]

Ran(event, top) ==
    [event |-> event,
     cycle |-> IF top.halted THEN "halted" ELSE "rendered",
     msg   |-> top.msg]

\* a session whose widgets were rendered and whose script is not running
Interactive(s) ==
    /\ pc[s] = "ready"
    /\ session_state[s].loaded
    /\ session_state[s].has_goal
    /\ outcome[s].cycle # "halted"

\* -------------------------------------------------------------------------
\* Script runs
\* -------------------------------------------------------------------------

\* A script run without a widget event: the first run of a session, or a
\* rerun after a run that st.stop() ended
Load(s) ==
    /\ pc[s] = "ready"
    /\ ~Interactive(s)
    /\ \E connect_ok \in BOOLEAN, fetch_ok \in BOOLEAN, at_ttl_hit \in BOOLEAN :
         LET top == ScriptTop(session_state[s], cookie[s], clients, data_cache,
                              connect_ok, fetch_ok, at_ttl_hit)
         IN  /\ clients' = top.clients
             /\ data_cache' = top.cache
             /\ session_state' = [session_state EXCEPT ![s] = top.ss]
             /\ outcome' = [outcome EXCEPT ![s] = Ran("load", top)]
             /\ last_fetch' = IF top.fetched
                              THEN [session |-> s, remote |-> top.remote]
                              ELSE last_fetch
    /\ UNCHANGED <<settings_ws, logs_ws, cookie, pc, pending, view, own_goal>>

\* on_user_change, then the script run it triggers
SwitchUser(s) ==
    /\ Interactive(s)
    /\ \E u \in Users \ {session_state[s].user} :
         /\ cookie' = [cookie EXCEPT ![s] = u]
         /\ session_state' = [session_state EXCEPT
                ![s].user = u,
                ![s].calorie_goal = get_calorie_goal(session_state[s].settings_df, u)]
    /\ outcome' = [outcome EXCEPT
           ![s] = [event |-> "switch", cycle |-> "rendered", msg |-> "none"]]
    /\ UNCHANGED <<settings_ws, logs_ws, clients, data_cache, pc, pending,
                   last_fetch, view, own_goal>>

\* "Refresh Data from Sheet": st.cache_data.clear(), both DataFrames popped
\* from the session state, st.rerun(); the rerun fetches them again
Refresh(s) ==
    /\ Interactive(s)
    /\ \E fetch_ok \in BOOLEAN :
         LET popped == [session_state[s] EXCEPT !.loaded = FALSE,
                            !.logs_df = <<>>, !.settings_df = <<>>]
             top == ScriptTop(popped, cookie[s], clients, EmptyCache,
                              TRUE, fetch_ok, FALSE)
         IN  /\ data_cache' = top.cache
             /\ session_state' = [session_state EXCEPT ![s] = top.ss]
             /\ outcome' = [outcome EXCEPT ![s] = Ran("refresh", top)]
             /\ last_fetch' = [session |-> s, remote |-> top.remote]
    /\ UNCHANGED <<settings_ws, logs_ws, clients, cookie, pc, pending, view,
                   own_goal>>

\* set_calorie_goal up to settings_ws.find: the Save Goal handler stores the
\* new goal in the session state first, then looks the user's row up; an
\* exception in find makes set_calorie_goal return False
SaveGoalFind(s) ==
    /\ Interactive(s)
    /\ \E new_goal \in GoalInputs, find_ok \in BOOLEAN :
         /\ session_state' = [session_state EXCEPT ![s].calorie_goal = new_goal]
         /\ IF find_ok
            THEN /\ pending' = [pending EXCEPT
                        ![s] = [row  |-> find(settings_ws, session_state[s].user),
                                goal |-> new_goal]]
                 /\ pc' = [pc EXCEPT ![s] = "saving"]
                 /\ UNCHANGED outcome
            ELSE /\ outcome' = [outcome EXCEPT
                        ![s] = [event |-> "save_goal", cycle |-> "rendered",
                                msg |-> "goal_error"]]
                 /\ UNCHANGED <<pending, pc>>
    /\ own_goal' = [own_goal EXCEPT ![s][session_state[s].user] = 0]
    /\ UNCHANGED <<settings_ws, logs_ws, clients, data_cache, cookie,
                   last_fetch, view>>

\* the rest of set_calorie_goal and of the Save Goal handler: update_cell or
\* append_row; on success st.cache_data.clear(); st.rerun() either way
SaveGoalWrite(s) ==
    /\ pc[s] = "saving"
    /\ \E write_ok \in BOOLEAN :
         IF write_ok
         THEN /\ settings_ws' = WriteGoal(settings_ws, pending[s].row,
                                          session_state[s].user, pending[s].goal)
              /\ data_cache' = EmptyCache
              /\ outcome' = [outcome EXCEPT
                     ![s] = [event |-> "save_goal", cycle |-> "rendered",
                             msg |-> "goal_saved"]]
              /\ own_goal' = [own_goal EXCEPT
                     ![s][session_state[s].user] = pending[s].goal]
         ELSE /\ outcome' = [outcome EXCEPT
                     ![s] = [event |-> "save_goal", cycle |-> "rendered",
                             msg |-> "goal_error"]]
              /\ UNCHANGED <<settings_ws, data_cache, own_goal>>
    /\ pc' = [pc EXCEPT ![s] = "ready"]
    /\ pending' = [pending EXCEPT ![s] = NoPending]
    /\ UNCHANGED <<logs_ws, clients, session_state, cookie, last_fetch, view>>

\* -------------------------------------------------------------------------
\* Meal logging
\* -------------------------------------------------------------------------

\* a value of the reply's "totals" object: a number, a value float()
\* rejects, or no such key
Val(n) == [kind |-> "num", v |-> n]

BadVal == [kind |-> "bad", v |-> 0]

Absent == [kind |-> "absent", v |-> 0]

Totals(cal, pro, carb, fat, fib) ==
    [calories_kcal |-> cal, protein_g |-> pro, carbs_g |-> carb,
     fat_g |-> fat, fiber_g |-> fib]

\* what get_nutrition_data and json.loads can produce: the call raises, the
\* content is not JSON, the JSON is not an object, its "totals" is not an
\* object, or it has one: with a key missing, or with a value that is no
\* number
EstimatorReplies ==
    {[kind |-> k, totals |-> Totals(Absent, Absent, Absent, Absent, Absent)] :
        k \in {"raise", "not_json", "not_object", "totals_not_object"}}
    \cup {[kind |-> "object", totals |-> tt] :
            tt \in {Totals(Val(360), Val(13), Val(58), Val(8), Absent),
                    Totals(BadVal, Val(13), Val(58), Val(8), Val(7)),
                    Totals(Val(360), Val(13), Val(58), Val(8), BadVal)}}

\* float(totals.get(col, 0))
TotalsGet(totals, col) ==
    IF totals[col].kind = "absent" THEN Num(0) ELSE Num(totals[col].v)

\* lines 245-256 raise before new_row_dict exists when the call raises,
\* json.loads raises, .get is missing on a non-object, or float() rejects a
\* value
ReplyRaises(reply) ==
    \/ reply.kind \in {"raise", "not_json", "not_object", "totals_not_object"}
    \/ /\ reply.kind = "object"
       /\ \E k \in 1..Len(NumericCols) : reply.totals[NumericCols[k]].kind = "bad"

\* new_row_dict, restricted to the columns the model keeps
NewRow(u, d, reply) ==
    [User |-> u, Date |-> d,
     calories_kcal |-> TotalsGet(reply.totals, "calories_kcal"),
     protein_g     |-> TotalsGet(reply.totals, "protein_g"),
     carbs_g       |-> TotalsGet(reply.totals, "carbs_g"),
     fat_g         |-> TotalsGet(reply.totals, "fat_g"),
     fiber_g       |-> TotalsGet(reply.totals, "fiber_g")]

\* a handler that logs a row of zeros when the reply cannot be used
LogEffect_zero_row(ss, ws, d, reply, write_ok) ==
    LET usable == IF ReplyRaises(reply)
                  THEN [kind |-> "object",
                        totals |-> Totals(Absent, Absent, Absent, Absent, Absent)]
                  ELSE reply
        row == NewRow(ss.user, d, usable)
    IN  [ss |-> [ss EXCEPT !.logs_df = Append(ss.logs_df, row)],
         ws |-> IF write_ok THEN Append(ws, row) ELSE ws,
         cycle |-> IF ReplyRaises(reply) THEN "exception" ELSE "rendered",
         msg |-> IF ReplyRaises(reply) THEN "exception"
                 ELSE IF write_ok THEN "logged" ELSE "logged_write_error"]

\* the effect of the "Log <meal>" handler once the reply is in hand: nothing
\* when it raised; else the row is concatenated to the session's logs_df and
\* then sent to the sheet by log_to_google_sheet, which may fail
LogEffect(ss, ws, d, reply, write_ok) ==
    IF ReplyRaises(reply)
    THEN [ss |-> ss, ws |-> ws, cycle |-> "exception", msg |-> "exception"]
    ELSE LET row == NewRow(ss.user, d, reply)
         IN  [ss |-> [ss EXCEPT !.logs_df = Append(ss.logs_df, row)],
              ws |-> IF write_ok THEN Append(ws, row) ELSE ws,
              cycle |-> "rendered",
              msg |-> IF write_ok THEN "logged" ELSE "logged_write_error"]

\* a "Log <meal>" form submit: empty input is rejected with a message;
\* there is no st.cache_data.clear() on this path
LogMealSubmit(s, d, has_items, reply, write_ok) ==
    /\ Interactive(s)
    /\ Len(session_state[s].logs_df) < MaxLogs
    /\ Len(logs_ws) < MaxLogs
    /\ IF ~has_items
       THEN /\ outcome' = [outcome EXCEPT
                   ![s] = [event |-> "log_meal", cycle |-> "rendered",
                           msg |-> "items_error"]]
            /\ UNCHANGED <<session_state, logs_ws>>
       ELSE LET eff == LogEffect(session_state[s], logs_ws, d, reply, write_ok)
            IN  /\ session_state' = [session_state EXCEPT ![s] = eff.ss]
                /\ logs_ws' = eff.ws
                /\ outcome' = [outcome EXCEPT
                       ![s] = [event |-> "log_meal", cycle |-> eff.cycle,
                               msg |-> eff.msg]]
    /\ UNCHANGED <<settings_ws, clients, data_cache, cookie, pc, pending,
                   last_fetch, view, own_goal>>

LogMeal(s) ==
    \E d \in MealDates, has_items \in BOOLEAN, reply \in EstimatorReplies,
       write_ok \in BOOLEAN :
        LogMealSubmit(s, d, has_items, reply, write_ok)

\* -------------------------------------------------------------------------
\* Environment
\* -------------------------------------------------------------------------

\* the browser reloads the page: a new session, the cookie stays
Reload(s) ==
    /\ pc[s] = "ready"
    /\ outcome[s].event # "none"
    /\ session_state' = [session_state EXCEPT ![s] = NoSessionState]
    /\ outcome' = [outcome EXCEPT ![s] = NoOutcome]
    /\ own_goal' = [own_goal EXCEPT ![s] = [u \in Users |-> 0]]
    /\ UNCHANGED <<settings_ws, logs_ws, clients, data_cache, cookie, pc,
                   pending, last_fetch, view>>

\* half a ttl of time passes; ages past the ttl are kept as ttl + 1
Tick ==
    /\ data_cache.valid
    /\ data_cache.age <= TTL
    /\ data_cache' = [data_cache EXCEPT
           !.age = IF @ + (TTL \div 2) > TTL THEN TTL + 1 ELSE @ + (TTL \div 2)]
    /\ UNCHANGED <<settings_ws, logs_ws, clients, session_state, cookie, pc,
                   pending, outcome, last_fetch, view, own_goal>>

\* -------------------------------------------------------------------------
\* Specification of the sessions
\* -------------------------------------------------------------------------

SettingNames == {"Calorie Goal", "Weight Goal"}

SettingRows == [User : Users, Setting : SettingNames, Value : {1800}]

\* the Settings worksheets the run starts from
InitSettings == {<<>>} \cup {<<r>> : r \in SettingRows}

Init ==
    /\ settings_ws \in InitSettings
    /\ logs_ws = <<>>
    /\ clients = "unset"
    /\ data_cache = EmptyCache
    /\ session_state = [s \in Sessions |-> NoSessionState]
    /\ cookie = [s \in Sessions |-> "none"]
    /\ pc = [s \in Sessions |-> "ready"]
    /\ pending = [s \in Sessions |-> NoPending]
    /\ outcome = [s \in Sessions |-> NoOutcome]
    /\ last_fetch = [session |-> 0, remote |-> FALSE]
    /\ view = [s \in Sessions |-> NoView]
    /\ own_goal = [s \in Sessions |-> [u \in Users |-> 0]]

\* the session the single-session specification runs
Solo == {CHOOSE s \in Sessions : \A o \in Sessions : s <= o}

Next ==
    \/ \E s \in Solo : Load(s)
    \/ \E s \in Solo : SwitchUser(s)
    \/ \E s \in Solo : Refresh(s)
    \/ \E s \in Solo : SaveGoalFind(s)
    \/ \E s \in Solo : SaveGoalWrite(s)
    \/ \E s \in Solo : LogMeal(s)
    \/ \E s \in Solo : Reload(s)
    \/ Tick

\* one browser session at a time: every handler, page reloads, time
Spec == Init /\ [][Next]_vars

\* -------------------------------------------------------------------------
\* Specification of sessions sharing the sheet
\* -------------------------------------------------------------------------

NextShared ==
    \/ \E s \in Sessions : Load(s)
    \/ \E s \in Sessions : SaveGoalFind(s)
    \/ \E s \in Sessions : SaveGoalWrite(s)

\* several sessions saving goals, their remote calls interleaved
SpecShared == Init /\ [][NextShared]_vars

\* -------------------------------------------------------------------------
\* Specification of the displays
\* -------------------------------------------------------------------------

\* lines 201-227: the Daily Summary and the Weekly Trend of the selected
\* date, computed from the session's logs_df
Render(s) ==
    /\ Interactive(s)
    /\ \E selected_date \in ViewDates :
         view' = [view EXCEPT ![s] =
             [shown  |-> TRUE,
              user   |-> session_state[s].user,
              date   |-> selected_date,
              totals |-> DailyTotals(session_state[s].logs_df,
                                     session_state[s].user, selected_date),
              trend  |-> display_weekly_trend(session_state[s].logs_df,
                                     session_state[s].user, selected_date)]]
    /\ UNCHANGED <<settings_ws, logs_ws, clients, data_cache, session_state,
                   cookie, pc, pending, outcome, last_fetch, own_goal>>

\* the five numeric cells of a Logs row
Cells(cal, pro, carb, fat, fib) ==
    [calories_kcal |-> cal, protein_g |-> pro, carbs_g |-> carb,
     fat_g |-> fat, fiber_g |-> fib]

AggCells ==
    {Cells(Num(300), Num(10), Num(40), Num(5), Num(3)),
     Cells(Num(500), Num(20), Num(60), Num(9), Num(4)),
     Cells(NotNum, Num(10), Num(40), Num(5), Num(3)),
     Cells(Num(300), NotNum, NotNum, NotNum, NotNum)}

AggRows ==
    {[User |-> u, Date |-> d, calories_kcal |-> c.calories_kcal,
      protein_g |-> c.protein_g, carbs_g |-> c.carbs_g, fat_g |-> c.fat_g,
      fiber_g |-> c.fiber_g] : u \in Users, d \in AggDates, c \in AggCells}

\* the Logs worksheets of at most MaxRows rows
AggLogs == UNION {[1..n -> AggRows] : n \in 0..MaxRows}

\* a session that loaded a sheet holding the rows of AggLogs
InitAgg ==
    /\ logs_ws \in AggLogs
    /\ settings_ws = <<>>
    /\ clients = "ok"
    /\ data_cache = [valid |-> TRUE, age |-> 0, logs |-> logs_ws,
                     settings |-> settings_ws]
    /\ session_state = [s \in Sessions |->
           IF s \in Solo
           THEN [user |-> USER_LIST[1], loaded |-> TRUE, logs_df |-> logs_ws,
                 settings_df |-> settings_ws, has_goal |-> TRUE,
                 calorie_goal |-> get_calorie_goal(settings_ws, USER_LIST[1])]
           ELSE NoSessionState]
    /\ cookie = [s \in Sessions |-> "none"]
    /\ pc = [s \in Sessions |-> "ready"]
    /\ pending = [s \in Sessions |-> NoPending]
    /\ outcome = [s \in Sessions |->
           IF s \in Solo
           THEN [event |-> "load", cycle |-> "rendered", msg |-> "none"]
           ELSE NoOutcome]
    /\ last_fetch = [session |-> CHOOSE s \in Solo : TRUE, remote |-> TRUE]
    /\ view = [s \in Sessions |-> NoView]
    /\ own_goal = [s \in Sessions |-> [u \in Users |-> 0]]

NextAgg ==
    \/ \E s \in Sessions : Render(s)
    \/ \E s \in Sessions : SwitchUser(s)

\* the displays of a loaded session over every small Logs snapshot
SpecAgg == InitAgg /\ [][NextAgg]_vars

\* -------------------------------------------------------------------------
\* Properties of the displays (SpecAgg)
\* -------------------------------------------------------------------------

\* the indices of the rows of df of user u dated d
Matching(df, u, d) == {i \in 1..Len(df) : df[i].User = u /\ df[i].Date = d}

RECURSIVE CellSum(_, _, _)
\* the sum of column col over the rows of df indexed by I, a cell that holds
\* no number counting as 0
CellSum(df, I, col) ==
    IF I = {} THEN 0
    ELSE LET i == CHOOSE x \in I : TRUE
         IN  (IF df[i][col].num THEN df[i][col].v ELSE 0)
                 + CellSum(df, I \ {i}, col)

\* C7: the daily totals shown for a user and a date are, column by column,
\* the sums of the five numeric columns over exactly the rows of that user
\* and date, a non-numeric cell counting as 0 and leaving the row's other
\* columns in; all zero when no row matches.
C7_DailyTotals ==
    \A s \in Sessions :
        view[s].shown =>
            LET df == session_state[s].logs_df
                I  == Matching(df, view[s].user, view[s].date)
            IN  /\ DOMAIN view[s].totals = {NumericCols[k] : k \in 1..Len(NumericCols)}
                /\ \A k \in 1..Len(NumericCols) :
                       view[s].totals[NumericCols[k]] = CellSum(df, I, NumericCols[k])

\* two rows match, one of them with a non-numeric calories cell, next to
\* none that does not match: the calories come from one row, the protein
\* from both
C7_Witness ==
    \E s \in Sessions :
        /\ view[s].shown
        /\ LET df == session_state[s].logs_df
               I  == Matching(df, view[s].user, view[s].date)
           IN  /\ Cardinality(I) = 2
               /\ \E i \in I : ~df[i].calories_kcal.num
               /\ \E i \in I : df[i].calories_kcal.num
               /\ view[s].totals["calories_kcal"] = 300
               /\ view[s].totals["protein_g"] = 20

\* the days of the week ending on end_date on which user u has a row
TrendDays(df, u, end_date) ==
    {d \in (end_date - WEEK_SPAN)..end_date : Matching(df, u, d) # {}}

\* C8: the weekly trend lists exactly the days of the 7-day window ending on
\* the selected date on which the user has a row, each with the calorie
\* component of that day's totals (a non-numeric calories cell counting as
\* 0), and reports the mean over the listed days only.
C8_WeeklyTrend ==
    \A s \in Sessions :
        view[s].shown =>
            LET df   == session_state[s].logs_df
                days == TrendDays(df, view[s].user, view[s].date)
                want == [d \in days |->
                            CellSum(df, Matching(df, view[s].user, d), "calories_kcal")]
            IN  /\ view[s].trend.kind # "error"
                /\ DOMAIN view[s].trend.series = days
                /\ \A d \in days : view[s].trend.series[d] = want[d]
                /\ days # {} =>
                       /\ view[s].trend.mean_den = Cardinality(days)
                       /\ view[s].trend.mean_num = SeriesSum(want, days)

\* -------------------------------------------------------------------------
\* Properties of one session (Spec)
\* -------------------------------------------------------------------------

\* a snapshot fetched with the cache invalidated and the sheet reachable
FreshSettings == fetch_all_data(EmptyCache, TRUE, FALSE).settings

\* C1: after a successful goal save of X for user u, a fetch made with the
\* cache invalidated gives a snapshot whose calorie_goal for u is exactly X,
\* whatever the Settings worksheet held before; and calorie_goal is 2000
\* for a user with no Calorie Goal row in the snapshot.
C1_GoalRoundTrip ==
    /\ \A s \in Sessions :
           (pc[s] = "ready" /\ outcome[s].msg = "goal_saved") =>
               get_calorie_goal(FreshSettings, session_state[s].user)
                   = session_state[s].calorie_goal
    /\ \A u \in Users :
           (\A i \in 1..Len(FreshSettings) :
                ~(FreshSettings[i].User = u /\ FreshSettings[i].Setting = "Calorie Goal"))
               => get_calorie_goal(FreshSettings, u) = DEFAULT_GOAL

\* C2: after every successful remote write (a logged meal, a saved goal) the
\* cache holds no snapshot fetched before the write, and the fetch of an
\* explicit refresh is a remote one.
C2_WritesInvalidate ==
    \A s \in Solo :
        /\ outcome[s].msg \in {"logged", "goal_saved"} => ~data_cache.valid
        /\ outcome[s].event = "refresh" =>
               last_fetch = [session |-> s, remote |-> TRUE]

\* a fetch_all_data call by session s: a load that fills the session state
Fetches(s) ==
    /\ ~session_state[s].loaded
    /\ session_state'[s].loaded
    /\ Load(s)

\* the session's snapshot after the step is the cache entry c
Holds(s, c) ==
    /\ session_state'[s].logs_df = c.logs
    /\ session_state'[s].settings_df = c.settings

\* C4: a fetch_all_data call made less than 60 seconds after the cached
\* snapshot was fetched, with no invalidation since, returns that snapshot
\* and makes no remote call; a call made after an invalidation, or more than
\* 60 seconds after the fetch, reads the sheet and replaces the cached
\* snapshot.
C4_CacheFreshness ==
    [][\A s \in Sessions :
          /\ (Fetches(s) /\ data_cache.valid /\ data_cache.age < TTL) =>
                 /\ last_fetch' = [session |-> s, remote |-> FALSE]
                 /\ data_cache' = data_cache
                 /\ Holds(s, data_cache)
          /\ (Fetches(s) /\ (~data_cache.valid \/ data_cache.age > TTL)) =>
                 /\ last_fetch' = [session |-> s, remote |-> TRUE]
                 /\ data_cache'.valid /\ data_cache'.age = 0
                 /\ Holds(s, data_cache')
                 /\ outcome'[s].msg # "fetch_error" =>
                        /\ data_cache'.logs = logs_ws
                        /\ data_cache'.settings = settings_ws
          /\ (outcome'[s].event = "refresh" /\ Refresh(s)) =>
                 /\ last_fetch' = [session |-> s, remote |-> TRUE]
                 /\ data_cache'.valid /\ data_cache'.age = 0
                 /\ Holds(s, data_cache')
      ]_vars

\* a session was served its snapshot from the cache, the sheet having
\* changed since that snapshot was fetched
C4_Witness ==
    \E s \in Sessions :
        /\ last_fetch = [session |-> s, remote |-> FALSE]
        /\ session_state[s].loaded
        /\ data_cache.valid
        /\ session_state[s].settings_df = data_cache.settings
        /\ data_cache.settings # settings_ws

\* the replies the claim speaks of: the call raised, the content is no
\* JSON object with a totals object, or a total is no number
Unusable(reply) ==
    \/ reply.kind \in {"raise", "not_json", "not_object", "totals_not_object"}
    \/ \E k \in 1..Len(NumericCols) : reply.totals[NumericCols[k]].kind = "bad"

\* C5: a meal log submit whose estimator call raises, or whose reply is not
\* parseable, or whose totals are no numbers, appends no row to the Logs
\* worksheet and leaves the session's logs_df, its whole session state and
\* the cache as they were.
C5_NoEntryOnEstimationError ==
    [][\A s \in Sessions :
          outcome'[s].event = "log_meal" =>
              \A d \in MealDates, write_ok \in BOOLEAN,
                 reply \in {r \in EstimatorReplies : Unusable(r)} :
                  LogMealSubmit(s, d, TRUE, reply, write_ok) =>
                      /\ logs_ws' = logs_ws
                      /\ session_state'[s] = session_state[s]
                      /\ data_cache' = data_cache
      ]_vars

\* a submit ended in an exception, in a session holding a snapshot
C5_Witness ==
    \E s \in Sessions :
        /\ outcome[s] = [event |-> "log_meal", cycle |-> "exception",
                         msg |-> "exception"]
        /\ session_state[s].loaded
        /\ data_cache.valid

C9_SeesOwnGoal ==
    \A s \in Sessions :
        (pc[s] = "ready" /\ session_state[s].user \in Users
            /\ own_goal[s][session_state[s].user] # 0) =>
            session_state[s].calorie_goal = own_goal[s][session_state[s].user]

\* C10: a goal save that fails leaves the session's calorie goal, its
\* snapshot and the cache as they were before the step that failed.
C10_FailedSaveKeepsState ==
    [][\A s \in Sessions :
          (/\ pc'[s] = "ready"
           /\ outcome'[s].msg = "goal_error"
           /\ SaveGoalFind(s) \/ SaveGoalWrite(s)) =>
              /\ session_state'[s] = session_state[s]
              /\ data_cache' = data_cache
      ]_vars

\* -------------------------------------------------------------------------
\* Properties of sessions sharing the sheet (SpecShared)
\* -------------------------------------------------------------------------

\* C3: the Settings worksheet, which starts with at most one row per
\* (user, setting name), never holds two rows for the same pair.
C3_OneRowPerKey ==
    \A i \in 1..Len(settings_ws), j \in 1..Len(settings_ws) :
        (i # j) =>
            ~(/\ settings_ws[i].User = settings_ws[j].User
              /\ settings_ws[i].Setting = settings_ws[j].Setting)

====
